---- MODULE Spec2Model ----
(***************************************************************************)
(* Model of the TikTok scanner content script (src/extension/popup.js,     *)
(* lines 80-346): the scan loop, the per-candidate pipeline processVideo,  *)
(* the storage-backed match list (saveMatch) and the message API.          *)
(*                                                                         *)
(* JavaScript runs one task at a time; a task and the microtasks it queues *)
(* run to completion before the next task.  Every action below is one such *)
(* task: a message handler, a timer callback, a script load event, the     *)
(* completion of a classifier call or of a chrome.storage operation.       *)
(*                                                                         *)
(* Probabilities are scaled by 100 (0.7 is 70).  Texts are sequences of    *)
(* Unicode code points.  A match record keeps url, description and prob;   *)
(* collectedAt, page and poster take no part in any decision of the code.  *)
(***************************************************************************)
EXTENDS Integers, Sequences, FiniteSets, Bags

VARIABLES
    scanning,      \* STATE.scanning
    intervalId,    \* STATE.intervalId; 0 stands for null
    faceApiReady,  \* STATE.faceApiReady
    processing,    \* STATE.processing, a set of identity keys
    timers,        \* handles of the intervals armed in the page
    store,         \* chrome.storage.local value under 'tt_matches'
    pipes,         \* the suspended processVideo calls, a bag of their frames
    loading,       \* startScanning calls suspended in injectFaceApi, by origin
    autoPending,   \* the 4000 ms auto-start timeout has not fired yet
    lastResp,      \* the response the latest task sent, if it sent one
    lastEvent,     \* history: the latest task and the branch it took
    abandoned,     \* history: keys whose pipeline was in flight when a stop cleared the set
    clearAcked,    \* history: a CLEAR_LIST was answered and since then only storage
                   \* operations that were already under way have completed
    staleWrites,   \* history: suspended writes that hold records a clear removed
    limit          \* the load of this run: how many pipelines and start calls it may hold

vars == <<scanning, intervalId, faceApiReady, processing, timers, store, pipes,
          loading, autoPending, lastResp, lastEvent, abandoned, clearAcked,
          staleWrites, limit>>

-----------------------------------------------------------------------------
(* Bounds of the model.  A run is either heavy on pipelines, with one      *)
(* start call live at a time, or heavy on start calls, with one pipeline   *)
(* suspended at a time.                                                    *)

MaxPipes == 2
MaxStarts == 2

Profiles ==
    { [pipes |-> MaxPipes, starts |-> 1],
      [pipes |-> 1, starts |-> MaxStarts] }

(* Program constants *)

femaleProbThreshold == 70

-----------------------------------------------------------------------------
(* The document: four video elements in document order.                    *)

VideoOrder == <<"v1", "v2", "v3", "v4">>

Videos == {VideoOrder[i] : i \in 1..Len(VideoOrder)}

\* video.currentSrc || video.src || ...: v1 and v3 play the same source
KeyOf(v) ==
    CASE v = "v1" -> "k1"
      [] v = "v2" -> "k2"
      [] v = "v3" -> "k1"
      [] OTHER    -> "k3"

\* findVideoUrl: v1 and v3 resolve to the same permalink
UrlOf(v) ==
    CASE v = "v1" -> "u1"
      [] v = "v2" -> "u2"
      [] v = "v3" -> "u1"
      [] OTHER    -> "u3"

\* extractDescriptionForVideo: v1 and v2 carry the same Arabic text, v3 mixes
\* a Latin letter with U+0750, v4 has a Latin letter and U+0708 (Syriac)
DescOf(v) ==
    CASE v = "v1" -> <<1605, 1585>>
      [] v = "v2" -> <<1605, 1585>>
      [] v = "v3" -> <<104, 1872>>
      [] OTHER    -> <<103, 1800>>

\* What a scan pass finds for one element: outside the viewport, visible with
\* no decoded frame (videoWidth 0), or visible with a frame.
DomStates == {"hidden", "noframe", "ok"}

\* What faceapi.detectAllFaces(...).withAgeAndGender() can deliver.
Detection(g, p) == [gender |-> g, genderProbability |-> p]

DetectionResults ==
    { <<>>,
      <<Detection("female", 69), Detection("male", 95)>>,
      <<Detection("female", 69), Detection("female", 70)>>,
      <<Detection("female", 70), Detection("male", 95)>> }

-----------------------------------------------------------------------------
(* Pure helpers *)

isArabic_Wide(text) == \E i \in 1..Len(text) : text[i] \in 1536..2303

\* line 94: /[\u0600-\u06FF\u0750-\u077F\u08A0-\u08FF]/.test(text || '')
isArabic(text) ==
    \E i \in 1..Len(text) :
        \/ text[i] \in 1536..1791
        \/ text[i] \in 1872..1919
        \/ text[i] \in 2208..2303

Max(a, b) == IF a >= b THEN a ELSE b

RECURSIVE maxProbFrom(_, _, _)
maxProbFrom(detections, i, acc) ==
    IF i > Len(detections) THEN acc
    ELSE maxProbFrom(detections, i + 1,
            IF detections[i].gender = "female"
            THEN Max(acc, detections[i].genderProbability)
            ELSE acc)

maxProb(detections) == maxProbFrom(detections, 1, 0)

isFemale_Lax(detections) == maxProb(detections) > 0

isFemale(detections) == maxProb(detections) >= femaleProbThreshold

exists_SameObject(list, record) ==
    \E i \in 1..Len(list) : list[i] = record

exists_UrlOnly(list, record) ==
    \E i \in 1..Len(list) : list[i].url = record.url

\* saveMatch's dedupe test, list.some(...)
exists(list, record) ==
    \E i \in 1..Len(list) :
        \/ list[i].url = record.url
        \/ record.description # <<>> /\ list[i].description = record.description

-----------------------------------------------------------------------------
(* Match records and suspended pipelines *)

Record(u, d, p) == [url |-> u, description |-> d, prob |-> p]

NoRecord == Record("", <<>>, 0)

RecordsOf(list) == {list[i] : i \in 1..Len(list)}

\* A member of pipes: the frame of a processVideo call suspended at an await,
\* with its locals and the state its element was found in when it was
\* admitted (dom).
\*   "detect"  line 254, awaiting detectFemaleOnFrame (classifier invoked)
\*   "get"     line 272, saveMatch awaiting chrome.storage.local.get
\*   "set"     line 272, saveMatch awaiting chrome.storage.local.set
Frame(v, dom) ==
    [pc |-> "detect", video |-> v, key |-> KeyOf(v), description |-> DescOf(v),
     dom |-> dom, record |-> NoRecord, list |-> <<>>]

One(frame) == SetToBag({frame})

InFlight(pp, k) == {f \in BagToSet(pp) : f.key = k}

\* the number of suspended pipelines of key k
CountInFlight(pp, k) ==
    LET fs == InFlight(pp, k)
        RECURSIVE sum(_)
        sum(S) == IF S = {} THEN 0
                  ELSE LET f == CHOOSE x \in S : TRUE
                       IN  CopiesIn(f, pp) + sum(S \ {f})
    IN  sum(fs)

KeysInFlight(pp) == {f.key : f \in BagToSet(pp)}

-----------------------------------------------------------------------------
(* One scan pass: scanOnce calls processVideo on every video; each call    *)
(* runs synchronously up to its first await.                               *)

\* lines 96-108, on the state the pass finds the element in
isElementInViewport(dom) == dom # "hidden"

AlreadyProcessing_Never(key, proc) == FALSE

\* line 239: STATE.processing.has(key)
AlreadyProcessing(key, proc) == key \in proc

PassStart(proc, pp) ==
    [processing |-> proc, pipes |-> pp, deferred |-> {}, overflow |-> FALSE]

\* processVideo up to its first suspension, for element v found in state dom
processVideo(v, dom, st) ==
    LET key == KeyOf(v)
        description == DescOf(v)
    IN  IF AlreadyProcessing(key, st.processing)
        THEN st
        ELSE IF ~isElementInViewport(dom) \/ ~isArabic(description)
        THEN \* add(key) at line 240, delete(key) at line 244 or 250
             [st EXCEPT !.processing = (@ \cup {key}) \ {key}]
        ELSE IF dom = "noframe"
        THEN \* detectFemaleOnFrame returns at line 190 without a classifier
             \* call; the delete at line 256 runs as a microtask after the pass
             [st EXCEPT !.processing = @ \cup {key},
                        !.deferred = @ \cup {key}]
        ELSE IF BagCardinality(st.pipes) >= limit.pipes
        THEN [st EXCEPT !.overflow = TRUE]
        ELSE [st EXCEPT !.processing = @ \cup {key},
                        !.pipes = @ (+) One(Frame(v, dom))]

RECURSIVE scanFrom(_, _, _)
scanFrom(i, env, st) ==
    IF i > Len(VideoOrder) THEN st
    ELSE scanFrom(i + 1, env, processVideo(VideoOrder[i], env[VideoOrder[i]], st))

scanOnce(env) == scanFrom(1, env, PassStart(processing, pipes))

\* The effect of a pass and of the microtasks it leaves behind.
RunPass(env) ==
    LET st == scanOnce(env)
    IN  /\ ~st.overflow
        /\ processing' = st.processing \ st.deferred
        /\ pipes' = st.pipes

\* The states a pass can find each element in.  Where two states lead
\* processVideo to the same result, one of them stands for both: v1 shares
\* its key with v3, so for v1 it matters whether the key is released at once
\* (hidden) or after the pass (noframe); v4 is rejected by its text in any
\* state.
DomChoices(v) ==
    CASE v = "v1" -> DomStates
      [] v = "v4" -> {"ok"}
      [] OTHER    -> {"hidden", "ok"}

Envs == {env \in [Videos -> DomStates] : \A v \in Videos : env[v] \in DomChoices(v)}

StillAbandoned(pp) == {k \in abandoned : InFlight(pp, k) # {}}

-----------------------------------------------------------------------------
(* Initial state: lines 81-86; the store is created empty on first use and *)
(* the page matches the auto-start route (line 339).                       *)

Origins == {"popup", "auto"}

NoResponse == [type |-> "none"]

\* startScanning calls past line 292 that are suspended or whose interval is
\* still armed
LiveStarts == loading["popup"] + loading["auto"] + Cardinality(timers)

Init ==
    /\ scanning = FALSE
    /\ intervalId = 0
    /\ faceApiReady = FALSE
    /\ processing = {}
    /\ timers = {}
    /\ store = <<>>
    /\ pipes = EmptyBag
    /\ loading = [o \in Origins |-> 0]
    /\ autoPending = TRUE
    /\ lastResp = NoResponse
    /\ lastEvent = <<"", "init", "">>
    /\ abandoned = {}
    /\ clearAcked = FALSE
    /\ staleWrites = {}
    /\ limit \in Profiles

-----------------------------------------------------------------------------
(* startScanning, lines 291-304 *)

\* setInterval returns a handle no armed interval has
NewTimer == CHOOSE t \in 1..(Cardinality(timers) + 1) : t \notin timers

startReturnsEarly_Never(isScanning) == FALSE

\* line 292: if (STATE.scanning) return true
startReturnsEarly(isScanning) == isScanning

\* lines 300-303, run in one task once injectFaceApi has resolved
FinishStart(env) ==
    /\ scanning' = TRUE
    /\ RunPass(env)
    /\ timers' = timers \cup {NewTimer}
    /\ intervalId' = NewTimer

StartResponse(ok) ==
    [type |-> "START_SCAN", ok |-> ok, scanning |-> scanning',
     faceApiReady |-> faceApiReady']

\* startScanning up to its return or its suspension in injectFaceApi;
\* respond is TRUE for the START_SCAN handler (lines 319-321)
startScanning(origin, respond) ==
    IF startReturnsEarly(scanning)
    THEN /\ UNCHANGED <<scanning, intervalId, faceApiReady, processing, timers,
                        pipes, loading>>
         /\ lastResp' = IF respond THEN StartResponse(TRUE) ELSE NoResponse
         /\ lastEvent' = <<origin, "start", "already scanning">>
    ELSE IF faceApiReady
    THEN \* injectFaceApi returns true at line 115
         /\ LiveStarts < limit.starts
         /\ \E env \in Envs : FinishStart(env)
         /\ UNCHANGED <<faceApiReady, loading>>
         /\ lastResp' = IF respond THEN StartResponse(TRUE) ELSE NoResponse
         /\ lastEvent' = <<origin, "start", "started">>
    ELSE \* lines 116-142: the script element is appended, the load is pending
         /\ LiveStarts < limit.starts
         /\ loading' = [loading EXCEPT ![origin] = @ + 1]
         /\ UNCHANGED <<scanning, intervalId, faceApiReady, processing, timers,
                        pipes>>
         /\ lastResp' = NoResponse
         /\ lastEvent' = <<origin, "start", "loading">>

StartScanMsg ==
    /\ startScanning("popup", TRUE)
    /\ abandoned' = StillAbandoned(pipes')
    /\ clearAcked' = FALSE
    /\ UNCHANGED <<store, autoPending, staleWrites, limit>>

\* lines 339-345: the delayed auto-start
AutoStart ==
    /\ autoPending
    /\ autoPending' = FALSE
    /\ startScanning("auto", FALSE)
    /\ abandoned' = StillAbandoned(pipes')
    /\ clearAcked' = FALSE
    /\ UNCHANGED <<store, staleWrites, limit>>

\* lines 122-132: the script loaded and both models loaded; startScanning
\* resumes at line 300
LoadOk(origin) ==
    /\ loading[origin] > 0
    /\ loading' = [loading EXCEPT ![origin] = @ - 1]
    /\ faceApiReady' = TRUE
    /\ \E env \in Envs : FinishStart(env)
    /\ lastResp' = IF origin = "popup" THEN StartResponse(TRUE) ELSE NoResponse
    /\ lastEvent' = <<origin, "load", "ok">>
    /\ abandoned' = StillAbandoned(pipes')
    /\ clearAcked' = FALSE
    /\ UNCHANGED <<store, autoPending, staleWrites, limit>>

\* lines 133-141: the script or a model failed to load; startScanning
\* returns false at line 298
LoadFail(origin) ==
    /\ loading[origin] > 0
    /\ loading' = [loading EXCEPT ![origin] = @ - 1]
    /\ UNCHANGED <<scanning, intervalId, faceApiReady, processing, timers, pipes>>
    /\ lastResp' = IF origin = "popup" THEN StartResponse(FALSE) ELSE NoResponse
    /\ lastEvent' = <<origin, "load", "failed">>
    /\ abandoned' = StillAbandoned(pipes')
    /\ clearAcked' = FALSE
    /\ UNCHANGED <<store, autoPending, staleWrites, limit>>

-----------------------------------------------------------------------------
(* stopScanning, lines 306-314, and the STOP_SCAN handler, lines 322-324 *)

clearProcessing_Skipped(proc) == proc

\* line 312: STATE.processing.clear()
clearProcessing(proc) == {}

suspendedAfterStop_Cancelled(pp) == EmptyBag

\* lines 306-314 keep no handle on the processVideo calls that are suspended:
\* stopScanning leaves every one of them as it is
suspendedAfterStop(pp) == pp

StopScanMsg ==
    /\ IF ~scanning
       THEN UNCHANGED <<scanning, intervalId, timers, processing, pipes, abandoned>>
       ELSE /\ timers' = IF intervalId # 0 THEN timers \ {intervalId} ELSE timers
            /\ intervalId' = 0
            /\ scanning' = FALSE
            /\ processing' = clearProcessing(processing)
            /\ pipes' = suspendedAfterStop(pipes)
            /\ abandoned' = abandoned \cup KeysInFlight(pipes)
    /\ lastResp' = [type |-> "STOP_SCAN", ok |-> TRUE, scanning |-> scanning']
    /\ lastEvent' = <<"popup", "stop", IF scanning THEN "stopped" ELSE "already idle">>
    /\ clearAcked' = FALSE
    /\ UNCHANGED <<faceApiReady, store, loading, autoPending, staleWrites, limit>>

\* lines 325-326
GetStatusMsg ==
    /\ lastResp' = [type |-> "GET_STATUS", scanning |-> scanning,
                    faceApiReady |-> faceApiReady]
    /\ lastEvent' = <<"popup", "status", "">>
    /\ clearAcked' = FALSE
    /\ UNCHANGED <<scanning, intervalId, faceApiReady, processing, timers, store,
                   pipes, loading, autoPending, abandoned, staleWrites, limit>>

\* the suspended writes of pp whose list holds, before its own record, a
\* record of list
StaleAt(pp, list) ==
    {f \in BagToSet(pp) :
        /\ f.pc = "set"
        /\ \E i \in 1..(Len(f.list) - 1) : f.list[i] \in RecordsOf(list)}

clearedValue_Kept == store

\* line 328: the value CLEAR_LIST writes, { tt_matches: [] }
clearedValue == <<>>

\* lines 327-328: the write of [] and its callback.  When the write fails
\* chrome.storage sets chrome.runtime.lastError and still calls the callback,
\* which does not look at it.
ClearListMsg(failed) ==
    /\ store' = IF failed THEN store ELSE clearedValue
    /\ lastResp' = [type |-> "CLEAR_LIST", ok |-> TRUE]
    /\ lastEvent' = <<"popup", "clear", IF failed THEN "write failed" ELSE "">>
    /\ clearAcked' = TRUE
    /\ staleWrites' = IF failed THEN staleWrites
                      ELSE staleWrites \cup StaleAt(pipes, store)
    /\ UNCHANGED <<scanning, intervalId, faceApiReady, processing, timers,
                   pipes, loading, autoPending, abandoned, limit>>

\* lines 329-332: the read and its callback.  When the read fails the
\* callback is called without a result and throws at res.tt_matches before
\* it reaches sendResponse.
GetMatchesMsg(failed) ==
    /\ lastResp' = IF failed THEN NoResponse
                   ELSE [type |-> "GET_MATCHES", ok |-> TRUE, matches |-> store]
    /\ lastEvent' = <<"popup", "matches", IF failed THEN "read failed" ELSE "">>
    /\ UNCHANGED <<scanning, intervalId, faceApiReady, processing, timers, store,
                   pipes, loading, autoPending, abandoned, clearAcked,
                   staleWrites, limit>>

-----------------------------------------------------------------------------
(* The interval callback: line 302, setInterval(scanOnce, ...) *)

TimerTick(t) ==
    /\ t \in timers
    /\ \E env \in Envs : RunPass(env)
    /\ lastEvent' = <<"timer", "pass", "">>
    /\ lastResp' = NoResponse
    /\ abandoned' = StillAbandoned(pipes')
    /\ clearAcked' = FALSE
    /\ UNCHANGED <<scanning, intervalId, faceApiReady, timers, store, loading,
                   autoPending, staleWrites, limit>>

-----------------------------------------------------------------------------
(* processVideo after the classifier call, lines 254-277 *)

detectResult_FailsOpen(detections, threw) ==
    IF threw THEN [isFemale |-> TRUE, prob |-> 100]
    ELSE IF Len(detections) = 0 THEN [isFemale |-> FALSE, prob |-> 0]
    ELSE [isFemale |-> isFemale(detections), prob |-> maxProb(detections)]

\* detectFemaleOnFrame, lines 203-216: the value the await at line 254
\* yields; a classifier call that throws is caught at line 213
detectResult(detections, threw) ==
    IF threw \/ Len(detections) = 0
    THEN [isFemale |-> FALSE, prob |-> 0]
    ELSE [isFemale |-> isFemale(detections), prob |-> maxProb(detections)]

\* lines 255-258: a negative result ends the pipeline
DetectNegative(me, detections, threw) ==
    /\ me \in BagToSet(pipes)
    /\ me.pc = "detect"
    /\ threw => detections = <<>>
    /\ ~detectResult(detections, threw).isFemale
    /\ processing' = processing \ {me.key}
    /\ pipes' = pipes (-) One(me)
    /\ lastEvent' = <<"pipeline", "detect", IF threw THEN "failed" ELSE "negative">>
    /\ lastResp' = NoResponse
    /\ abandoned' = StillAbandoned(pipes')
    /\ clearAcked' = FALSE
    /\ UNCHANGED <<scanning, intervalId, faceApiReady, timers, store, loading,
                   autoPending, staleWrites, limit>>

\* lines 260-272: the record is built and saveMatch issues the storage read
DetectPositive(me, detections, threw) ==
    LET r == detectResult(detections, threw)
    IN  /\ me \in BagToSet(pipes)
        /\ me.pc = "detect"
        /\ threw => detections = <<>>
        /\ r.isFemale
        /\ pipes' = (pipes (-) One(me)) (+)
                    One([me EXCEPT !.pc = "get",
                                   !.record = Record(UrlOf(me.video),
                                                     me.description, r.prob)])
        /\ lastEvent' = <<"pipeline", "detect", IF threw THEN "failed" ELSE "positive">>
        /\ lastResp' = NoResponse
        /\ abandoned' = StillAbandoned(pipes')
        /\ clearAcked' = FALSE
        /\ UNCHANGED <<scanning, intervalId, faceApiReady, processing, timers,
                       store, loading, autoPending, staleWrites, limit>>

\* lines 272, 275-277: chrome.storage.local.get throws (the extension context
\* is gone), the promise of saveMatch rejects and processVideo ends in its
\* catch block
processVideoCatch_EndsAll(pp, me) == EmptyBag

\* lines 275-277: the catch block logs; the call that threw ends and no
\* other call is touched
processVideoCatch(pp, me) == pp (-) One(me)

SaveMatchThrows(me, detections) ==
    /\ me \in BagToSet(pipes)
    /\ me.pc = "detect"
    /\ detectResult(detections, FALSE).isFemale
    /\ pipes' = processVideoCatch(pipes, me)
    /\ lastEvent' = <<"pipeline", "save", "threw">>
    /\ lastResp' = NoResponse
    /\ abandoned' = StillAbandoned(pipes')
    /\ clearAcked' = FALSE
    /\ UNCHANGED <<scanning, intervalId, faceApiReady, processing, timers,
                   store, loading, autoPending, staleWrites, limit>>

\* saveMatch, lines 221-230: the callback of chrome.storage.local.get
StorageGetDone(me) ==
    LET list == store
    IN  /\ me \in BagToSet(pipes)
        /\ me.pc = "get"
        /\ IF exists(list, me.record)
           THEN \* resolve(false); processVideo resumes and deletes its key
                /\ pipes' = pipes (-) One(me)
                /\ processing' = processing \ {me.key}
           ELSE \* list.push(record); chrome.storage.local.set is issued
                /\ pipes' = (pipes (-) One(me)) (+)
                            One([me EXCEPT !.pc = "set",
                                           !.list = Append(list, me.record)])
                /\ processing' = processing
        /\ lastEvent' = <<"pipeline", "get", IF exists(list, me.record) THEN "duplicate" ELSE "new">>
        /\ lastResp' = NoResponse
        /\ abandoned' = StillAbandoned(pipes')
        /\ UNCHANGED <<scanning, intervalId, faceApiReady, timers, store, loading,
                       autoPending, clearAcked, staleWrites, limit>>

\* saveMatch, line 227: the write and its callback, resolve(true);
\* processVideo resumes at line 273 and deletes its key
StorageSetDone(me) ==
    /\ me \in BagToSet(pipes)
    /\ me.pc = "set"
    /\ store' = me.list
    /\ pipes' = pipes (-) One(me)
    /\ processing' = processing \ {me.key}
    /\ lastEvent' = <<"pipeline", "set", "inserted">>
    /\ lastResp' = NoResponse
    /\ abandoned' = StillAbandoned(pipes')
    /\ staleWrites' = staleWrites \cap BagToSet(pipes')
    /\ UNCHANGED <<scanning, intervalId, faceApiReady, timers, loading,
                   autoPending, clearAcked, limit>>

-----------------------------------------------------------------------------

Next ==
    \/ StartScanMsg
    \/ AutoStart
    \/ \E o \in Origins : LoadOk(o)
    \/ \E o \in Origins : LoadFail(o)
    \/ StopScanMsg
    \/ GetStatusMsg
    \/ \E failed \in BOOLEAN : ClearListMsg(failed)
    \/ \E failed \in BOOLEAN : GetMatchesMsg(failed)
    \/ \E t \in timers : TimerTick(t)
    \/ \E me \in BagToSet(pipes), d \in DetectionResults, threw \in BOOLEAN :
          DetectNegative(me, d, threw)
    \/ \E me \in BagToSet(pipes), d \in DetectionResults, threw \in BOOLEAN :
          DetectPositive(me, d, threw)
    \/ \E me \in BagToSet(pipes), d \in DetectionResults : SaveMatchThrows(me, d)
    \/ \E me \in BagToSet(pipes) : StorageGetDone(me)
    \/ \E me \in BagToSet(pipes) : StorageSetDone(me)

Spec == Init /\ [][Next]_vars

-----------------------------------------------------------------------------
(* Properties *)

Keys == {KeyOf(v) : v \in Videos}

\* The Text Filter as specified: at least one code point in the Arabic,
\* Arabic Supplement or Arabic Extended-A block.
HasArabicCodePoint(text) ==
    \E i \in 1..Len(text) :
        \/ 1536 <= text[i] /\ text[i] <= 1791
        \/ 1872 <= text[i] /\ text[i] <= 1919
        \/ 2208 <= text[i] /\ text[i] <= 2303

\* C1: in every reachable state the persisted Match List holds no two
\* records with the same reference URL and no two records with the same
\* non-empty description.
C1_NoDuplicateRecords ==
    \A i, j \in 1..Len(store) :
        i # j =>
            /\ store[i].url # store[j].url
            /\ store[i].description # <<>>
                   => store[i].description # store[j].description

\* Two records are stored and an append has just been rejected as a
\* duplicate of one of them.
C1_Witness ==
    /\ Len(store) = 2
    /\ lastEvent = <<"pipeline", "get", "duplicate">>

\* C2 as claimed: a record enters the Match List when its append reports
\* 'inserted' and is still in the list after every later step, until the
\* next clear.
C2_NoRecordLost ==
    [][lastEvent' # <<"popup", "clear", "">>
          => RecordsOf(store) \subseteq RecordsOf(store')]_vars

\* C3 as claimed: when a pipeline terminates, on any exit path, its key is
\* no longer a member of the Processing Set.
C3_KeyReleasedOnEveryExit ==
    [][\A k \in Keys :
          CountInFlight(pipes', k) < CountInFlight(pipes, k)
              => k \notin processing']_vars

C5_NoTimerPassWhileIdle == lastEvent = <<"timer", "pass", "">> => scanning

\* C6 as claimed: at most one load of the classifier is under way at a time.
C6_SingleInitialization == loading["popup"] + loading["auto"] <= 1

ProgramState ==
    <<scanning, intervalId, faceApiReady, processing, timers, store, pipes,
      loading, autoPending>>

\* C7: a START_SCAN received while Scanning changes nothing and answers
\* ok:true, scanning:true; a STOP_SCAN received while Idle changes nothing
\* and answers ok:true, scanning:false.
C7_RequestForHeldStateIsNoop ==
    [][/\ (lastEvent'[1] = "popup" /\ lastEvent'[2] = "start" /\ scanning)
            => /\ UNCHANGED ProgramState
               /\ lastResp'.type = "START_SCAN"
               /\ lastResp'.ok /\ lastResp'.scanning
       /\ (lastEvent'[1] = "popup" /\ lastEvent'[2] = "stop" /\ ~scanning)
            => /\ UNCHANGED ProgramState
               /\ lastResp'.type = "STOP_SCAN"
               /\ lastResp'.ok /\ ~lastResp'.scanning]_vars

\* A START_SCAN has just been answered as a no-op while a pipeline is
\* suspended and an interval is armed.
C7_Witness ==
    /\ lastEvent = <<"popup", "start", "already scanning">>
    /\ lastResp = [type |-> "START_SCAN", ok |-> TRUE, scanning |-> TRUE,
                   faceApiReady |-> TRUE]
    /\ pipes # EmptyBag
    /\ intervalId \in timers

\* C8 as claimed: when the initialization of a START_SCAN fails, the loop is
\* Idle, no timer is armed, the readiness flag is false and the response is
\* ok:false, scanning:false.
C8_FailedStartLeavesIdle ==
    lastEvent = <<"popup", "load", "failed">> =>
        /\ ~scanning
        /\ timers = {}
        /\ ~faceApiReady
        /\ lastResp = [type |-> "START_SCAN", ok |-> FALSE, scanning |-> FALSE,
                       faceApiReady |-> FALSE]

\* C9: every record in the Match List has a description that satisfies the
\* Text Filter and a confidence at or above the configured threshold.
C9_RecordsPassedBothFilters ==
    \A i \in 1..Len(store) :
        /\ HasArabicCodePoint(store[i].description)
        /\ store[i].prob >= femaleProbThreshold

\* A record was stored whose confidence is exactly the threshold.
C9_Witness ==
    /\ lastEvent = <<"pipeline", "set", "inserted">>
    /\ \E i \in 1..Len(store) : store[i].prob = femaleProbThreshold

\* C10: a candidate that is not visible or whose description does not
\* satisfy the Text Filter never reaches the classifier and never appends a
\* record: every suspended pipeline, and every stored record, belongs to a
\* candidate that was visible and had a matching description.
C10_CheapFiltersGateClassifier ==
    /\ \A f \in BagToSet(pipes) :
          /\ f.dom # "hidden"
          /\ HasArabicCodePoint(f.description)
    /\ \A i \in 1..Len(store) : HasArabicCodePoint(store[i].description)

\* A timer pass has just left v2 as the only admitted candidate: it found
\* v1 and v3 outside the viewport or without a frame and rejected v4 by its
\* text.
C10_Witness ==
    /\ lastEvent = <<"timer", "pass", "">>
    /\ limit.pipes > 1
    /\ processing = {"k2"}
    /\ pipes = One(Frame("v2", "ok"))

NoAppendUnderWay(pp) == \A f \in BagToSet(pp) : f.pc = "detect"

C12_EveryRequestAnswered ==
    (lastEvent[1] = "popup" /\ lastEvent[3] # "loading")
        => lastResp.type # "none"

\* The dedupe rule as specified: some record of the list has the same URL,
\* or the same description when that description is not empty.
SameUrlOrDescription(list, r) ==
    \E i \in 1..Len(list) :
        \/ list[i].url = r.url
        \/ r.description # <<>> /\ list[i].description = r.description

\* C13: an append that reads a list holding a record with the same URL or
\* the same non-empty description reports false and leaves the list as it
\* is; any other append goes on to write the list it read with its record
\* added at the end, and when no other store operation came in between that
\* write makes the list exactly one record longer.
C13_SequentialAppend ==
    [][/\ (lastEvent'[1] = "pipeline" /\ lastEvent'[2] = "get") =>
            \E f \in BagToSet(pipes) :
                /\ f.pc = "get"
                /\ store' = store
                /\ IF SameUrlOrDescription(store, f.record)
                   THEN /\ lastEvent'[3] = "duplicate"
                        /\ pipes' = pipes (-) One(f)
                   ELSE /\ lastEvent'[3] = "new"
                        /\ pipes' = (pipes (-) One(f)) (+)
                              One([f EXCEPT !.pc = "set",
                                            !.list = Append(store, f.record)])
       /\ lastEvent' = <<"pipeline", "set", "inserted">> =>
            \A f \in BagToSet(pipes) :
                (/\ f.pc = "set"
                 /\ pipes' = pipes (-) One(f)
                 /\ f.list = Append(store, f.record))
                    => /\ store' = Append(store, f.record)
                       /\ Len(store') = Len(store) + 1]_vars

\* An append has just been rejected against a list of one record, which is
\* either the same record or one with another URL and the same description.
C13_Witness ==
    /\ lastEvent = <<"pipeline", "get", "duplicate">>
    /\ Len(store) = 1
    /\ pipes = EmptyBag

\* the next step of the suspended call f
PipelineStep(f) ==
    \/ \E d \in DetectionResults, threw \in BOOLEAN : DetectNegative(f, d, threw)
    \/ \E d \in DetectionResults, threw \in BOOLEAN : DetectPositive(f, d, threw)
    \/ StorageGetDone(f)
    \/ StorageSetDone(f)

\* C14: a stop request leaves every suspended pipeline as it is, and in
\* every state, Idle included, every suspended pipeline can take its next
\* step: its classification can return, its read and its write can complete.
C14_StopLeavesPipelinesRunning ==
    /\ [](\A f \in BagToSet(pipes) : ENABLED PipelineStep(f))
    /\ [][lastEvent'[2] = "stop" => pipes' = pipes]_vars

\* The loop is Idle with no interval armed, and a pipeline that a stop cut
\* loose has just had a positive classification and issued its append.
C14_Witness ==
    /\ ~scanning
    /\ timers = {}
    /\ lastEvent = <<"pipeline", "detect", "positive">>
    /\ \E f \in BagToSet(pipes) : f.pc = "get" /\ f.key \in abandoned

\* C15: an error raised inside one pipeline ends that pipeline only: the
\* other suspended pipelines stay as they are, the loop stays in the state
\* it was in, the interval stays armed and the store is untouched.
C15_ErrorEndsOnlyItsPipeline ==
    [][lastEvent' = <<"pipeline", "save", "threw">> =>
          /\ \E f \in BagToSet(pipes) :
                f.pc = "detect" /\ pipes' = pipes (-) One(f)
          /\ scanning' = scanning
          /\ timers' = timers
          /\ intervalId' = intervalId
          /\ store' = store]_vars

\* A pipeline has just ended in its error path while the loop is Scanning,
\* its interval is armed and another pipeline is still suspended.
C15_Witness ==
    /\ lastEvent = <<"pipeline", "save", "threw">>
    /\ scanning
    /\ intervalId \in timers
    /\ pipes # EmptyBag

\* C16: a classifier call that fails yields a negative result with
\* confidence 0, and the pipeline ends as filtered out: it is gone, its key
\* is removed from the Processing Set and the store is untouched.
C16_ClassifierFailureIsNegative ==
    [][lastEvent' = <<"pipeline", "detect", "failed">> =>
          /\ detectResult(<<>>, TRUE) = [isFemale |-> FALSE, prob |-> 0]
          /\ \E f \in BagToSet(pipes) :
                /\ f.pc = "detect"
                /\ pipes' = pipes (-) One(f)
                /\ processing' = processing \ {f.key}
          /\ store' = store]_vars

\* The classifier call of the only suspended pipeline has just failed.
C16_Witness ==
    /\ lastEvent = <<"pipeline", "detect", "failed">>
    /\ scanning
    /\ pipes = EmptyBag
    /\ processing = {}

\* C17 as claimed: an append that read the store before a CLEAR_LIST took
\* effect and writes after it does not bring back a record that clear
\* removed.
C17_ClearNotUndone ==
    [][lastEvent' = <<"pipeline", "set", "inserted">> =>
          \A f \in staleWrites : pipes' # pipes (-) One(f)]_vars

\* C18: immediately after a stop request received while Scanning the loop
\* is Idle, the timer handle is null and the Processing Set is empty,
\* however many pipelines are suspended, and the response reports
\* scanning:false.
C18_StopResetsTracker ==
    lastEvent = <<"popup", "stop", "stopped">> =>
        /\ ~scanning
        /\ intervalId = 0
        /\ processing = {}
        /\ lastResp = [type |-> "STOP_SCAN", ok |-> TRUE, scanning |-> FALSE]

\* A stop has just been processed with two pipelines suspended.
C18_Witness ==
    /\ lastEvent = <<"popup", "stop", "stopped">>
    /\ BagCardinality(pipes) >= 2

C20_StoreFailureReported ==
    [][lastEvent' \in {<<"popup", "clear", "write failed">>,
                       <<"popup", "matches", "read failed">>} =>
          /\ lastResp'.type # "none"
          /\ ~lastResp'.ok
          /\ UNCHANGED <<scanning, intervalId, timers, processing>>]_vars

====
